---- MODULE Spec2Model ----
(***************************************************************************)
(* A model of ConjectureData, the test record of                           *)
(* hypothesis/internal/conjecture/data.py: the growing byte buffer, the    *)
(* flat Block list, the Example tree with its stack of open examples, and  *)
(* the freeze / conclude / overrun lifecycle.                              *)
(*                                                                         *)
(* Conventions.  Python's None is the empty tuple None and a value x that  *)
(* may be None is <<x>>.  Indices stored in fields are 0-based as in the   *)
(* code; the TLA+ sequence holding the object with index i has it at       *)
(* position i + 1.  An exception is <<type, argument>>; no exception is    *)
(* NoExc.  A handler is an operator from the record (and its arguments)    *)
(* to an outcome [d, exc, ret, src]: the record afterwards, the exception  *)
(* raised, the value returned and whether the byte source was called.      *)
(***************************************************************************)
EXTENDS Integers, Sequences, FiniteSets, TLC

VARIABLES
    data,           \* the ConjectureData object, a record of its fields
    draw_stack,     \* the active frames of ConjectureData.__draw, innermost last
    op,             \* the name of the operation called last
    raised,         \* the exception the last operation raised, or NoExc
    result,         \* the value the last operation returned
    source_called,  \* whether the last operation called the byte source
    records,        \* the records of the process in creation order; the
                    \* place of the one in use, which is data, holds None
    counter,        \* the current value of the global global_test_counter
    calls           \* the calls a draw logic has made on data, in order,
                    \* each with what it returned or raised

vars == <<data, draw_stack, op, raised, result, source_called, records, counter,
          calls>>

-----------------------------------------------------------------------------
(* Bounds of the model. *)

MaxLength == 2      \* the largest max_length a record is constructed with
MaxBits == 9        \* the widest draw_bits request
MaxExamples == 3    \* examples a record may hold, the root included
MaxLiteral == 2     \* the longest byte string written as a literal
MaxReplay == 4      \* the longest buffer a record replays
MaxCalls == 3       \* calls a draw logic makes
MaxSource == 2      \* the longest buffer a draw logic replays
MaxRecords == 2     \* records created in one process
MaxDeepExamples == 3 \* examples added to a record that is MAX_DEPTH - 1 draws deep

(* Inputs. *)
ByteValues == {0, 255}
BitWidths == {0, 2, MaxBits}
ForcedValues == {0, 255}
ByteCounts == {0, 1}
Strings == {<<>>, <<0>>, <<255>>}
Labels == {"user"}
Events == {"event"}
ReplayBytes == 0..3
AllBytes == 0..255
Origins == {"origin"}

(* Program constants. *)
OVERRUN == 0
INVALID == 1
VALID == 2
INTERESTING == 3
MAX_DEPTH == 100
global_test_counter == 0

Statuses == {OVERRUN, INVALID, VALID, INTERESTING}
TOP_LABEL == "top"
DRAW_BYTES_LABEL == "draw_bytes() in ConjectureData"

None == <<>>
NoExc == <<>>

-----------------------------------------------------------------------------
(* Helpers of hypothesis.internal.compat. *)

RECURSIVE bit_length(_)
bit_length(v) ==
    IF v = 0 THEN 0 ELSE 1 + bit_length(v \div 2)

RECURSIVE int_from_bytes(_)
int_from_bytes(s) ==
    IF s = <<>> THEN 0
    ELSE int_from_bytes(SubSeq(s, 1, Len(s) - 1)) * 256 + s[Len(s)]

RECURSIVE int_to_bytes(_, _)
int_to_bytes(v, size) ==
    IF size = 0 THEN <<>>
    ELSE Append(int_to_bytes(v \div 256, size - 1), v % 256)

(* a & b on non-negative integers. *)
RECURSIVE BitAnd(_, _)
BitAnd(a, b) ==
    IF a = 0 \/ b = 0 THEN 0
    ELSE 2 * BitAnd(a \div 2, b \div 2) + (IF a % 2 = 1 /\ b % 2 = 1 THEN 1 ELSE 0)

(* 1 << k *)
RECURSIVE ShiftLeft1(_)
ShiftLeft1(k) ==
    IF k = 0 THEN 1 ELSE 2 * ShiftLeft1(k - 1)

Max(a, b) == IF a >= b THEN a ELSE b

RECURSIVE SeqsUpTo(_, _)
SeqsUpTo(S, n) ==
    IF n = 0 THEN {<<>>}
    ELSE LET shorter == SeqsUpTo(S, n - 1)
         IN  shorter \cup {Append(s, x) : s \in {t \in shorter : Len(t) = n - 1}, x \in S}

SeqsOfLen(S, n) == {s \in SeqsUpTo(S, n) : Len(s) = n}

-----------------------------------------------------------------------------
(* The record and its properties. *)

bits_to_bytes(n) ==
    LET n_bytes == n \div 8
    IN  IF n % 8 # 0 THEN n_bytes + 1 ELSE n_bytes

depth(d) == Len(d.example_stack) - 1

index(d) == Len(d.buffer)

Example(depth_, label, index_, start) ==
    [depth |-> depth_, label |-> label, index |-> index_, start |-> start,
     end |-> None, trivial |-> TRUE, discarded |-> None, children |-> <<>>]

Block(start, end, bits, index_, forced, all_zero) ==
    [start |-> start, end |-> end, bits |-> bits, index |-> index_,
     forced |-> forced, all_zero |-> all_zero]

(* Mutant: "and" for "or". *)
BlockTrivial_And(b) == b.forced /\ b.all_zero

BlockTrivial(b) == b.forced \/ b.all_zero

Outcome(d, exc, ret, src) == [d |-> d, exc |-> exc, ret |-> ret, src |-> src]

Frozen(d, name) == Outcome(d, <<"Frozen", name>>, None, FALSE)

StopTest(d) == <<"StopTest", d.testcounter>>

-----------------------------------------------------------------------------
(* ConjectureData.__init__ *)

NewData(max_length) ==
    [max_length |-> max_length,
     draw_bytes_src |-> TRUE,
     overdraw |-> 0,
     block_starts |-> <<>>,
     blocks |-> <<>>,
     buffer |-> <<>>,
     status |-> VALID,
     frozen |-> FALSE,
     testcounter |-> global_test_counter,
     events |-> [type |-> "set", members |-> {}],
     interesting_origin |-> None,
     max_depth |-> 0,
     examples |-> <<>>,
     example_stack |-> <<>>,
     has_discards |-> FALSE]

(* Mutant: the slice starts one byte late. *)
ReplaySource_Ahead(d, n) ==
    SubSeq(d.replay, index(d) + 2,
           IF index(d) + 1 + n <= Len(d.replay) THEN index(d) + 1 + n ELSE Len(d.replay))

(* Mutant: the source of a replay record slices from the start of B. *)
ReplaySource_FromStart(d, n) ==
    SubSeq(d.replay, 1, IF n <= Len(d.replay) THEN n ELSE Len(d.replay))

(* The byte source of for_buffer: buffer[data.index : data.index + n], a
   Python slice, which stops at the end of the buffer. *)
ReplaySource(d, n) ==
    SubSeq(d.replay, index(d) + 1,
           IF index(d) + n <= Len(d.replay) THEN index(d) + n ELSE Len(d.replay))

(* for_buffer(B), before __init__ opens the root example: the record also
   holds B, which its byte source slices. *)
for_buffer(B) == NewData(Len(B)) @@ [replay |-> B]

(* Mutant: the new example becomes a child of the bottom of the stack. *)
push_example_BottomParent(d, label) ==
    LET i == Len(d.examples)
        new_depth == depth(d) + 1
        ex == Example(new_depth, label, i, index(d))
        appended == Append(d.examples, ex)
        examples == IF d.example_stack # <<>>
                    THEN LET p == d.example_stack[1]
                         IN  [appended EXCEPT ![p + 1].children = Append(@, i)]
                    ELSE appended
        stack == Append(d.example_stack, i)
    IN  [d EXCEPT !.examples = examples,
                  !.example_stack = stack,
                  !.max_depth = Max(d.max_depth, Len(stack) - 1)]

(* start_example past its frozen check: the new example is appended, made
   the last child of the example on top of the stack, and pushed. *)
push_example(d, label) ==
    LET i == Len(d.examples)
        new_depth == depth(d) + 1
        ex == Example(new_depth, label, i, index(d))
        appended == Append(d.examples, ex)
        examples == IF d.example_stack # <<>>
                    THEN LET p == d.example_stack[Len(d.example_stack)]
                         IN  [appended EXCEPT ![p + 1].children = Append(@, i)]
                    ELSE appended
        stack == Append(d.example_stack, i)
    IN  [d EXCEPT !.examples = examples,
                  !.example_stack = stack,
                  !.max_depth = Max(d.max_depth, Len(stack) - 1)]

start_example(d, label) ==
    IF d.frozen THEN Frozen(d, "start_example")
    ELSE Outcome(push_example(d, label), NoExc, None, FALSE)

(* Mutant: the flag as asked, empty example or not. *)
EffectiveDiscard_AsAsked(d, ex, discard) == discard

(* if self.index == ex.start: discard = False *)
EffectiveDiscard(d, ex, discard) ==
    IF index(d) = ex.start THEN FALSE ELSE discard

(* Mutant: the parent is never marked. *)
MarkParent_Never(examples, stack, ex) == examples

(* if self.example_stack and not ex.trivial: mark the new top non-trivial *)
MarkParent(examples, stack, ex) ==
    IF stack # <<>> /\ ~ex.trivial
    THEN [examples EXCEPT ![stack[Len(stack)] + 1].trivial = FALSE]
    ELSE examples

(* Mutant: the example's end is not set. *)
pop_example_EndUnset(d, discard) ==
    LET n == Len(d.example_stack)
        k == d.example_stack[n]
        stack == SubSeq(d.example_stack, 1, n - 1)
        ex == d.examples[k + 1]
        marked == MarkParent(d.examples, stack, ex)
        discard_ == EffectiveDiscard(d, ex, discard)
    IN  [d EXCEPT !.example_stack = stack,
                  !.examples = [marked EXCEPT ![k + 1].discarded = <<discard_>>],
                  !.has_discards = IF discard_ THEN TRUE ELSE @]

(* stop_example past its frozen check, the stack not empty. *)
pop_example(d, discard) ==
    LET n == Len(d.example_stack)
        k == d.example_stack[n]
        stack == SubSeq(d.example_stack, 1, n - 1)
        ex == d.examples[k + 1]
        ended == [d.examples EXCEPT ![k + 1].end = <<index(d)>>]
        marked == MarkParent(ended, stack, ex)
        discard_ == EffectiveDiscard(d, ex, discard)
    IN  [d EXCEPT !.example_stack = stack,
                  !.examples = [marked EXCEPT ![k + 1].discarded = <<discard_>>],
                  !.has_discards = IF discard_ THEN TRUE ELSE @]

(* Mutant: no frozen check. *)
stop_example_Unchecked(d, discard) ==
    IF d.example_stack = <<>>
    THEN Outcome(d, <<"IndexError", "pop from empty list">>, None, FALSE)
    ELSE Outcome(pop_example(d, discard), NoExc, None, FALSE)

(* stop_example; popping an empty stack is Python's IndexError. *)
stop_example(d, discard) ==
    IF d.frozen THEN Outcome(d, NoExc, None, FALSE)
    ELSE IF d.example_stack = <<>>
    THEN Outcome(d, <<"IndexError", "pop from empty list">>, None, FALSE)
    ELSE Outcome(pop_example(d, discard), NoExc, None, FALSE)

(* The number of times the loop of freeze runs its body. *)
RECURSIVE Closes(_)
Closes(d) ==
    IF d.example_stack = <<>> THEN 0 ELSE 1 + Closes(pop_example(d, FALSE))

(* The loop of freeze: while self.example_stack: self.stop_example() *)
RECURSIVE StopAll(_)
StopAll(d) ==
    IF d.example_stack = <<>> THEN d ELSE StopAll(pop_example(d, FALSE))

(* Mutant: the loop runs its body once. *)
freeze_OneClose(d) ==
    IF d.frozen THEN d
    ELSE [(IF d.example_stack = <<>> THEN d ELSE pop_example(d, FALSE))
              EXCEPT !.frozen = TRUE,
                     !.events.type = "frozenset",
                     !.draw_bytes_src = FALSE]

(* Mutant: events stays the set it was. *)
freeze_EventsStaySet(d) ==
    IF d.frozen THEN d
    ELSE [StopAll(d) EXCEPT !.frozen = TRUE, !.draw_bytes_src = FALSE]

(* freeze; the discards it computes for a VALID or INTERESTING record are a
   local variable that is dropped, hbytes(buffer) holds the same bytes, and
   events becomes a frozenset of the same members. *)
freeze(d) ==
    IF d.frozen THEN d
    ELSE [StopAll(d) EXCEPT !.frozen = TRUE,
                            !.events.type = "frozenset",
                            !.draw_bytes_src = FALSE]

(* Mutant: ">=" for ">". *)
check_capacity_AtLeast(d, n) ==
    IF index(d) + n >= d.max_length
    THEN Outcome(freeze([d EXCEPT !.overdraw = index(d) + n - d.max_length,
                                  !.status = OVERRUN]),
                 StopTest(d), None, FALSE)
    ELSE Outcome(d, NoExc, None, FALSE)

check_capacity(d, n) ==
    IF index(d) + n > d.max_length
    THEN Outcome(freeze([d EXCEPT !.overdraw = index(d) + n - d.max_length,
                                  !.status = OVERRUN]),
                 StopTest(d), None, FALSE)
    ELSE Outcome(d, NoExc, None, FALSE)

(* Mutant: the high bits are not masked off. *)
MaskBuf_Unmasked(buf, n) == buf

(* Mutant: the mask is 1 << (n % 8), without the "- 1". *)
MaskBuf_OffByOne(buf, n) ==
    IF n % 8 # 0
    THEN [buf EXCEPT ![1] = BitAnd(@, ShiftLeft1(n % 8))]
    ELSE buf

(* buf[0] &= mask when n is not a multiple of 8 *)
MaskBuf(buf, n) ==
    IF n % 8 # 0
    THEN [buf EXCEPT ![1] = BitAnd(@, ShiftLeft1(n % 8) - 1)]
    ELSE buf

AddBlockStart(block_starts, n_bytes, start) ==
    IF n_bytes \in DOMAIN block_starts
    THEN [block_starts EXCEPT ![n_bytes] = Append(@, start)]
    ELSE block_starts @@ (n_bytes :> <<start>>)

(* Mutant: the block ends n // 8 bytes after its start. *)
DrawnBlock_RoundedDown(d, n, n_bytes, forced, res) ==
    LET initial == index(d)
    IN  Block(initial, initial + (n \div 8), n, Len(d.blocks), forced # None, res = 0)

(* Mutant: the forced flag is that of a draw from the source. *)
DrawnBlock_NotForced(d, n, n_bytes, forced, res) ==
    LET initial == index(d)
    IN  Block(initial, initial + n_bytes, n, Len(d.blocks), forced = None, res = 0)

(* The Block of a draw: initial = self.index; block = Block(...) *)
DrawnBlock(d, n, n_bytes, forced, res) ==
    LET initial == index(d)
    IN  Block(initial, initial + n_bytes, n, Len(d.blocks), forced # None, res = 0)

(* draw_bits(n, forced); src is what the byte source returns when asked. *)
draw_bits(d, n, forced, src) ==
    IF d.frozen THEN Frozen(d, "draw_bits")
    ELSE
    LET n_bytes == bits_to_bytes(n)
        cap == check_capacity(d, n_bytes)
        raw == IF forced # None THEN int_to_bytes(forced[1], n_bytes) ELSE src
    IN  IF cap.exc # NoExc THEN cap
        ELSE IF Len(raw) # n_bytes
        THEN Outcome(d, <<"AssertionError", "draw_bits">>, None, forced = None)
        ELSE
        LET buf == MaskBuf(raw, n)
            res == int_from_bytes(buf)
            d1 == start_example(d, DRAW_BYTES_LABEL).d
            ex == Len(d.examples)
            block == DrawnBlock(d1, n, n_bytes, forced, res)
            d2 == [d1 EXCEPT !.examples[ex + 1].trivial = BlockTrivial(block),
                             !.block_starts = AddBlockStart(@, n_bytes, block.start),
                             !.blocks = Append(@, block),
                             !.buffer = @ \o buf]
        IN  Outcome(stop_example(d2, FALSE).d, NoExc, res, forced = None)

draw_bytes(d, n, src) ==
    IF n = 0 THEN Outcome(d, NoExc, <<>>, FALSE)
    ELSE LET o == draw_bits(d, 8 * n, None, src)
         IN  IF o.exc # NoExc THEN o ELSE [o EXCEPT !.ret = int_to_bytes(o.ret, n)]

(* Mutant: the empty string is drawn like any other. *)
write_EmptyDrawn(d, string) ==
    IF d.frozen THEN Frozen(d, "write")
    ELSE LET o == draw_bits(d, Len(string) * 8, <<int_from_bytes(string)>>, <<>>)
         IN  IF o.exc # NoExc THEN o
             ELSE [o EXCEPT !.ret = SubSeq(o.d.buffer,
                                           Len(o.d.buffer) - Len(string) + 1,
                                           Len(o.d.buffer))]

(* Mutant: no frozen check. *)
write_Unchecked(d, string) ==
    IF string = <<>> THEN Outcome(d, NoExc, None, FALSE)
    ELSE LET o == draw_bits(d, Len(string) * 8, <<int_from_bytes(string)>>, <<>>)
         IN  IF o.exc # NoExc THEN o
             ELSE [o EXCEPT !.ret = SubSeq(o.d.buffer,
                                           Len(o.d.buffer) - Len(string) + 1,
                                           Len(o.d.buffer))]

write(d, string) ==
    IF d.frozen THEN Frozen(d, "write")
    ELSE IF string = <<>> THEN Outcome(d, NoExc, None, FALSE)
    ELSE LET o == draw_bits(d, Len(string) * 8, <<int_from_bytes(string)>>, <<>>)
         IN  IF o.exc # NoExc THEN o
             ELSE [o EXCEPT !.ret = SubSeq(o.d.buffer,
                                           Len(o.d.buffer) - Len(string) + 1,
                                           Len(o.d.buffer))]

(* Mutant: without the assertion on the pair. *)
conclude_test_Unasserted(d, status, interesting_origin) ==
    IF d.frozen THEN Frozen(d, "conclude_test")
    ELSE Outcome(freeze([d EXCEPT !.interesting_origin = interesting_origin,
                                  !.status = status]),
                 StopTest(d), None, FALSE)

conclude_test(d, status, interesting_origin) ==
    IF ~(interesting_origin = None \/ status = INTERESTING)
    THEN Outcome(d, <<"AssertionError", "conclude_test">>, None, FALSE)
    ELSE IF d.frozen THEN Frozen(d, "conclude_test")
    ELSE Outcome(freeze([d EXCEPT !.interesting_origin = interesting_origin,
                                  !.status = status]),
                 StopTest(d), None, FALSE)

mark_invalid(d) == conclude_test(d, INVALID, None)

mark_interesting(d, interesting_origin) == conclude_test(d, INTERESTING, interesting_origin)

(* note; the text it collects in output is not part of the model. *)
note(d, value) ==
    IF d.frozen THEN Frozen(d, "note")
    ELSE Outcome(d, NoExc, None, FALSE)

(* note_event: self.events.add(event), which a frozenset does not have. *)
note_event(d, event) ==
    IF d.events.type = "frozenset"
    THEN Outcome(d, <<"AttributeError", "add">>, None, FALSE)
    ELSE Outcome([d EXCEPT !.events.members = @ \cup {event}], NoExc, None, FALSE)

(* Mutant: ">" for ">=" in the depth check. *)
draw_DepthOffByOne(d, is_empty, label) ==
    IF is_empty THEN mark_invalid(d)
    ELSE IF depth(d) > MAX_DEPTH THEN mark_invalid(d)
    ELSE start_example(d, label)

(* draw and __draw up to the call of strategy.do_draw; a frame of __draw is
   pushed when the example was opened. *)
draw(d, is_empty, label) ==
    IF is_empty THEN mark_invalid(d)
    ELSE IF depth(d) >= MAX_DEPTH THEN mark_invalid(d)
    ELSE start_example(d, label)

DrawFrame(d) == [at_top_level |-> depth(d) = 0]

-----------------------------------------------------------------------------
(* The calls.  An exception raised inside strategy code leaves the frames of
   __draw one by one and reaches the owner of the record, who may go on
   calling; a call is made while no exception is on its way, and records its
   outcome. *)

Propagating == raised # NoExc /\ draw_stack # <<>>

Returns(name, o) ==
    /\ data' = o.d
    /\ op' = name
    /\ raised' = o.exc
    /\ result' = o.ret
    /\ source_called' = o.src
    /\ UNCHANGED <<records, counter, calls>>

Call(name, o) ==
    /\ ~Propagating
    /\ Returns(name, o)
    /\ UNCHANGED draw_stack

Room(d) == d.frozen \/ Len(d.examples) < MaxExamples

Fits(forced, n) == bit_length(forced) <= 8 * bits_to_bytes(n)

DrawBitsRandom ==
    \E n \in BitWidths : \E src \in SeqsOfLen(ByteValues, bits_to_bytes(n)) :
        /\ Room(data)
        /\ Call("draw_bits", draw_bits(data, n, None, src))

DrawBitsForced ==
    \E n \in BitWidths : \E forced \in {f \in ForcedValues : Fits(f, n)} :
        /\ Room(data)
        /\ Call("draw_bits", draw_bits(data, n, <<forced>>, <<>>))

DrawBytes ==
    \E n \in ByteCounts : \E src \in SeqsOfLen(ByteValues, n) :
        /\ Room(data)
        /\ Call("draw_bytes", draw_bytes(data, n, src))

Write ==
    \E string \in Strings :
        /\ Room(data)
        /\ Call("write", write(data, string))

StartExample ==
    \E label \in Labels :
        /\ Room(data)
        /\ Call("start_example", start_example(data, label))

StopExample ==
    \E discard \in BOOLEAN :
        Call("stop_example", stop_example(data, discard))

Freeze ==
    Call("freeze", Outcome(freeze(data), NoExc, None, FALSE))

ConcludeTest ==
    \E status \in Statuses :
    \E origin \in {None} \cup (IF status = INTERESTING THEN {<<o>> : o \in Origins} ELSE {}) :
        Call("conclude_test", conclude_test(data, status, origin))

Note ==
    Call("note", note(data, "x"))

NoteEvent ==
    \E event \in Events :
        Call("note_event", note_event(data, event))

(* draw(strategy): up to the call of strategy.do_draw. *)
Draw ==
    \E is_empty \in BOOLEAN : \E label \in Labels :
        LET o == draw(data, is_empty, label)
        IN  /\ ~Propagating
            /\ Room(data)
            /\ Returns("draw", o)
            /\ draw_stack' = IF o.exc = NoExc
                             THEN Append(draw_stack, DrawFrame(data))
                             ELSE draw_stack

(* strategy.do_draw returns: the finally of __draw runs stop_example(). *)
DrawReturn ==
    /\ ~Propagating
    /\ draw_stack # <<>>
    /\ draw_stack' = SubSeq(draw_stack, 1, Len(draw_stack) - 1)
    /\ Returns("draw.return", stop_example(data, FALSE))

(* strategy.do_draw raises a fault of its own. *)
DrawFault ==
    /\ ~Propagating
    /\ draw_stack # <<>>
    /\ Returns("do_draw", Outcome(data, <<"Fault", "do_draw">>, None, FALSE))
    /\ UNCHANGED draw_stack

(* An exception leaves the innermost frame of __draw: its finally runs
   stop_example(), and the exception goes on (an IndexError of that
   stop_example replaces it). *)
Unwind ==
    /\ Propagating
    /\ draw_stack' = SubSeq(draw_stack, 1, Len(draw_stack) - 1)
    /\ LET o == stop_example(data, FALSE)
       IN  /\ data' = o.d
           /\ op' = "draw.unwind"
           /\ raised' = IF o.exc # NoExc THEN o.exc ELSE raised
           /\ UNCHANGED <<result, source_called, records, counter, calls>>

Init ==
    /\ \E max_length \in 0..MaxLength :
           data = start_example(NewData(max_length), TOP_LABEL).d
    /\ draw_stack = <<>>
    /\ op = "__init__"
    /\ raised = NoExc
    /\ result = None
    /\ source_called = FALSE
    /\ records = <<None>>
    /\ counter = global_test_counter + 1
    /\ calls = <<>>

Next ==
    \/ DrawBitsRandom
    \/ DrawBitsForced
    \/ DrawBytes
    \/ Write
    \/ StartExample
    \/ StopExample
    \/ Freeze
    \/ ConcludeTest
    \/ Note
    \/ Draw
    \/ DrawReturn
    \/ DrawFault
    \/ Unwind

Spec == Init /\ [][Next]_vars

(* The callers that keep to the protocol: they do not close the root example,
   which the record opened itself, and once the record is frozen they make no
   further call on it; the frames of __draw they are in are still left, by
   return, by a fault or by the exception on its way. *)
NextRecording ==
    \/ ~data.frozen /\ DrawBitsRandom
    \/ ~data.frozen /\ DrawBitsForced
    \/ ~data.frozen /\ DrawBytes
    \/ ~data.frozen /\ Write
    \/ ~data.frozen /\ StartExample
    \/ ~data.frozen /\ Len(data.example_stack) > 1 /\ StopExample
    \/ ~data.frozen /\ Freeze
    \/ ~data.frozen /\ ConcludeTest
    \/ ~data.frozen /\ Note
    \/ ~data.frozen /\ Draw
    \/ DrawReturn
    \/ DrawFault
    \/ Unwind

SpecRecording == Init /\ [][NextRecording]_vars

(* Strategies whose do_draw is balanced: it closes only the examples it
   opened itself.  A frame of __draw remembers here the stack of open
   examples it was entered with and the index of the example it opened. *)
BalancedFrame(d) ==
    [at_top_level |-> depth(d) = 0,
     example_stack |-> d.example_stack,
     example |-> Len(d.examples)]

BalancedDraw ==
    \E is_empty \in BOOLEAN : \E label \in Labels :
        LET o == draw(data, is_empty, label)
        IN  /\ ~Propagating
            /\ Room(data)
            /\ Returns("draw", o)
            /\ draw_stack' = IF o.exc = NoExc
                             THEN Append(draw_stack, BalancedFrame(data))
                             ELSE draw_stack

(* The examples open when the code running now was entered: the root for
   the owner of the record, and for a do_draw the example of its draw too. *)
OpenAtEntry ==
    IF draw_stack = <<>> THEN 1
    ELSE Len(draw_stack[Len(draw_stack)].example_stack) + 1

BalancedStopExample ==
    /\ Len(data.example_stack) > OpenAtEntry
    /\ StopExample

(* do_draw is left, by return or by an exception, with its own examples
   closed. *)
BalancedAtExit == data.frozen \/ Len(data.example_stack) = OpenAtEntry

BalancedReturn ==
    /\ BalancedAtExit
    /\ DrawReturn

(* An exception goes through a do_draw that has examples of its own open:
   do_draw closes them on its way out. *)
BalancedCleanup ==
    /\ Propagating
    /\ ~BalancedAtExit
    /\ data' = stop_example(data, FALSE).d
    /\ op' = "do_draw.cleanup"
    /\ UNCHANGED <<draw_stack, raised, result, source_called, records, counter,
                    calls>>

BalancedUnwind ==
    /\ BalancedAtExit
    /\ Unwind

NextBalanced ==
    \/ ~data.frozen /\ DrawBitsRandom
    \/ ~data.frozen /\ DrawBitsForced
    \/ ~data.frozen /\ DrawBytes
    \/ ~data.frozen /\ Write
    \/ ~data.frozen /\ StartExample
    \/ ~data.frozen /\ BalancedStopExample
    \/ ~data.frozen /\ Freeze
    \/ ~data.frozen /\ ConcludeTest
    \/ ~data.frozen /\ BalancedDraw
    \/ BalancedReturn
    \/ DrawFault
    \/ BalancedCleanup
    \/ BalancedUnwind

SpecBalanced == Init /\ [][NextBalanced]_vars

(* Literals: records with room for a literal of MaxLiteral bytes after
   MaxLength bytes, and callers that write literals of up to that length. *)
Literals == SeqsUpTo(ByteValues, MaxLiteral)

InitLiteral ==
    /\ \E max_length \in 0..(MaxLength + MaxLiteral) :
           data = start_example(NewData(max_length), TOP_LABEL).d
    /\ draw_stack = <<>>
    /\ op = "__init__"
    /\ raised = NoExc
    /\ result = None
    /\ source_called = FALSE
    /\ records = <<None>>
    /\ counter = global_test_counter + 1
    /\ calls = <<>>

WriteLiteral ==
    \E string \in Literals :
        /\ Room(data)
        /\ Call("write", write(data, string))

NextLiteral ==
    \/ ~data.frozen /\ WriteLiteral
    \/ ~data.frozen /\ DrawBitsRandom
    \/ ~data.frozen /\ DrawBitsForced
    \/ ~data.frozen /\ StartExample
    \/ ~data.frozen /\ Len(data.example_stack) > 1 /\ StopExample

SpecLiteral == InitLiteral /\ [][NextLiteral]_vars

(* Replay: a record made by for_buffer, whose draws pull from its source. *)
InitReplay ==
    /\ \E B \in SeqsUpTo(ReplayBytes, MaxReplay) :
           data = start_example(for_buffer(B), TOP_LABEL).d
    /\ draw_stack = <<>>
    /\ op = "__init__"
    /\ raised = NoExc
    /\ result = None
    /\ source_called = FALSE
    /\ records = <<None>>
    /\ counter = global_test_counter + 1
    /\ calls = <<>>

ReplayRoom(d) == d.frozen \/ Len(d.examples) < MaxReplay + 2

ReplayDrawBytes ==
    \E n \in ByteCounts :
        /\ ReplayRoom(data)
        /\ Call("draw_bytes", draw_bytes(data, n, ReplaySource(data, n)))

MarkInvalid ==
    Call("mark_invalid", mark_invalid(data))

MarkInteresting ==
    \E origin \in {None} \cup {<<o>> : o \in Origins} :
        Call("mark_interesting", mark_interesting(data, origin))

(* test_lot_of_dead_nodes from its i-th round on:
   for i in range(4): if data.draw_bytes(1)[0] != i: data.mark_invalid()
   data.mark_interesting() *)
RECURSIVE lot_of_dead_nodes(_, _)
lot_of_dead_nodes(d, i) ==
    IF i = 4 THEN mark_interesting(d, None)
    ELSE LET o == draw_bytes(d, 1, ReplaySource(d, 1))
         IN  IF o.exc # NoExc THEN o
             ELSE IF o.ret[1] # i THEN mark_invalid(o.d)
             ELSE lot_of_dead_nodes(o.d, i + 1)

RunLotOfDeadNodes ==
    /\ op = "__init__"
    /\ Call("test_lot_of_dead_nodes", lot_of_dead_nodes(data, 0))

NextReplay ==
    \/ ~data.frozen /\ ReplayDrawBytes
    \/ ~data.frozen /\ MarkInvalid
    \/ ~data.frozen /\ MarkInteresting
    \/ RunLotOfDeadNodes

SpecReplay == InitReplay /\ [][NextReplay]_vars

(* Replay of a single byte, any byte, by draws of bits. *)
InitMasked ==
    /\ \E a \in AllBytes :
           data = start_example(for_buffer(<<a>>), TOP_LABEL).d
    /\ draw_stack = <<>>
    /\ op = "__init__"
    /\ raised = NoExc
    /\ result = None
    /\ source_called = FALSE
    /\ records = <<None>>
    /\ counter = global_test_counter + 1
    /\ calls = <<>>

ReplayDrawBits ==
    \E n \in BitWidths :
        /\ ReplayRoom(data)
        /\ Call("draw_bits", draw_bits(data, n, None, ReplaySource(data, bits_to_bytes(n))))

NextMasked ==
    \/ ~data.frozen /\ ReplayDrawBits
    \/ ~data.frozen /\ Freeze

SpecMasked == InitMasked /\ [][NextMasked]_vars

(* A draw logic on a replay record: a test function that calls draw_bits,
   write, start_example, stop_example and conclude_test on for_buffer(B),
   and whose runner freezes the record when the function returns. *)
InitLogic ==
    /\ \E B \in SeqsUpTo(ByteValues, MaxSource) :
           data = start_example(for_buffer(B), TOP_LABEL).d
    /\ draw_stack = <<>>
    /\ op = "__init__"
    /\ raised = NoExc
    /\ result = None
    /\ source_called = FALSE
    /\ records = <<None>>
    /\ counter = global_test_counter + 1
    /\ calls = <<>>

(* One call of the logic on the record d. *)
Exec(d, name, arg) ==
    CASE name = "draw_bits" ->
             draw_bits(d, arg, None, ReplaySource(d, bits_to_bytes(arg)))
      [] name = "write" -> write(d, arg)
      [] name = "start_example" -> start_example(d, arg)
      [] name = "stop_example" -> stop_example(d, arg)
      [] name = "conclude_test" -> conclude_test(d, arg, None)
      [] name = "freeze" -> Outcome(freeze(d), NoExc, None, FALSE)

(* The logic goes on while no call has raised and the record is not frozen. *)
Running == ~data.frozen /\ (calls # <<>> => raised = NoExc) /\ Len(calls) < MaxCalls

LogicCall(name, arg) ==
    LET o == Exec(data, name, arg)
    IN  /\ Running
        /\ data' = o.d
        /\ op' = name
        /\ raised' = o.exc
        /\ result' = o.ret
        /\ source_called' = o.src
        /\ calls' = Append(calls, [name |-> name, arg |-> arg,
                                    exc |-> o.exc, ret |-> o.ret])
        /\ UNCHANGED <<draw_stack, records, counter>>

LogicDrawBits == \E n \in BitWidths : LogicCall("draw_bits", n)

LogicWrite == \E string \in Strings : LogicCall("write", string)

LogicStartExample == \E label \in Labels : LogicCall("start_example", label)

LogicStopExample == \E discard \in BOOLEAN : LogicCall("stop_example", discard)

LogicConcludeTest == \E status \in Statuses : LogicCall("conclude_test", status)

LogicFreeze == LogicCall("freeze", None)

NextLogic ==
    \/ LogicDrawBits
    \/ LogicWrite
    \/ LogicStartExample
    \/ LogicStopExample
    \/ LogicConcludeTest
    \/ LogicFreeze

SpecLogic == InitLogic /\ [][NextLogic]_vars

(* The same logic run again on the record d: it makes the calls cs from the
   i-th on, as long as none has raised; outs are the outcomes of its calls. *)
RECURSIVE Rerun(_, _, _, _)
Rerun(d, cs, i, outs) ==
    IF i > Len(cs) \/ (outs # <<>> /\ outs[Len(outs)].exc # NoExc)
    THEN [d |-> d, outs |-> outs]
    ELSE LET o == Exec(d, cs[i].name, cs[i].arg)
         IN  Rerun(o.d, cs, i + 1,
                   Append(outs, [name |-> cs[i].name, arg |-> cs[i].arg,
                                 exc |-> o.exc, ret |-> o.ret]))

(* Recursive strategies: the record and the frames of __draw after k draws,
   each made by the strategy of the one before.  Every draw opened one
   example below the one before it, with nothing drawn yet. *)
NestedDraws(max_length, k) ==
    [d |-> [NewData(max_length) EXCEPT
                !.examples = [i \in 1..(k + 1) |->
                                 [Example(i - 1, IF i = 1 THEN TOP_LABEL ELSE "user", i - 1, 0)
                                      EXCEPT !.children = IF i <= k THEN <<i>> ELSE <<>>]],
                !.example_stack = [i \in 1..(k + 1) |-> i - 1],
                !.max_depth = k],
     frames |-> [i \in 1..k |-> [at_top_level |-> i = 1]]]

InitDeep ==
    /\ \E max_length \in 0..MaxLength :
           LET nested == NestedDraws(max_length, MAX_DEPTH - 1)
           IN  /\ data = nested.d
               /\ draw_stack = nested.frames
    /\ op = "draw"
    /\ raised = NoExc
    /\ result = None
    /\ source_called = FALSE
    /\ records = <<None>>
    /\ counter = global_test_counter + 1
    /\ calls = <<>>

DeepRoom(d) == d.frozen \/ Len(d.examples) < MAX_DEPTH + MaxDeepExamples

(* draw(strategy) by a strategy that deep; the strategies here recurse
   without returning: each draws again, is empty, or raises a fault. *)
DeepDraw ==
    \E is_empty \in BOOLEAN : \E label \in Labels :
        LET o == draw(data, is_empty, label)
        IN  /\ ~Propagating
            /\ DeepRoom(data)
            /\ Returns("draw", o)
            /\ draw_stack' = IF o.exc = NoExc
                             THEN Append(draw_stack, DrawFrame(data))
                             ELSE draw_stack

NextDeep ==
    \/ DeepDraw
    \/ DrawFault
    \/ Unwind

SpecDeep == InitDeep /\ [][NextDeep]_vars

(* Every call of Next, and note_event. *)
NextEvents ==
    \/ Next
    \/ NoteEvent

SpecEvents == Init /\ [][NextEvents]_vars

(* Mutant: every record takes the counter's value at import. *)
ConjectureData_CounterUnread(max_length, c) ==
    start_example(NewData(max_length), TOP_LABEL).d

(* ConjectureData(max_length, ...) when global_test_counter is c: the
   record takes c as its testcounter and opens the root example. *)
ConjectureData(max_length, c) ==
    start_example([NewData(max_length) EXCEPT !.testcounter = c], TOP_LABEL).d

(* Several records in one process, nested or used in turn: the caller
   creates records, turns from one to another, and calls the one in use. *)
current == CHOOSE i \in 1..Len(records) : records[i] = None

Record(i) == IF records[i] = None THEN data ELSE records[i][1]

Create ==
    \E max_length \in 0..MaxLength :
        /\ Len(records) < MaxRecords
        /\ data' = ConjectureData(max_length, counter)
        /\ counter' = counter + 1
        /\ records' = Append([records EXCEPT ![current] = <<data>>], None)
        /\ op' = "__init__"
        /\ raised' = NoExc
        /\ result' = None
        /\ source_called' = FALSE
        /\ UNCHANGED <<draw_stack, calls>>

TurnTo ==
    \E i \in 1..Len(records) :
        /\ i # current
        /\ data' = records[i][1]
        /\ records' = [records EXCEPT ![current] = <<data>>, ![i] = None]
        /\ op' = "turn"
        /\ raised' = NoExc
        /\ result' = None
        /\ source_called' = FALSE
        /\ UNCHANGED <<draw_stack, counter, calls>>

DrawZeroByte ==
    /\ Room(data)
    /\ Call("draw_bytes", draw_bytes(data, 1, <<0>>))

NextNested ==
    \/ Create
    \/ TurnTo
    \/ DrawZeroByte
    \/ MarkInvalid

SpecNested == Init /\ [][NextNested]_vars

-----------------------------------------------------------------------------
(* Vocabulary of the properties. *)

Blocks == data.blocks
Examples == data.examples
BlockIds == 1..Len(Blocks)
ExampleIds == 1..Len(Examples)

Succeeded(name) == op = name /\ raised = NoExc
Aborted(name) == op = name /\ raised # NoExc /\ raised[1] = "StopTest"

BlockBytes(d, b) == SubSeq(d.buffer, b.start + 1, b.end)

Closed(e) == e.end # None

(* The end of an example's region: its end, or the end of the buffer while
   the example is open. *)
RegionEnd(d, e) == IF Closed(e) THEN e.end[1] ELSE Len(d.buffer)

Contains(d, e, b) == e.start <= b.start /\ b.end <= RegionEnd(d, e)

NonTrivialBlock(b) == ~b.forced /\ ~b.all_zero

(* The inputs of the calls. *)
DrawBitsInputs ==
    {<<n, None, src>> : n \in BitWidths, src \in SeqsUpTo(ByteValues, bits_to_bytes(MaxBits))}
    \cup {<<n, <<f>>, <<>> >> : n \in BitWidths, f \in ForcedValues}

ValidDrawBitsInputs ==
    {i \in DrawBitsInputs :
        IF i[2] = None THEN Len(i[3]) = bits_to_bytes(i[1]) ELSE Fits(i[2][1], i[1])}

-----------------------------------------------------------------------------
(* C1: between operations the blocks tile the buffer: the first block starts
   at 0, each block ends where the next starts, block i has index i, the last
   block ends at len(buffer), and a buffer without blocks is empty. *)
C1_BlocksTileBuffer ==
    /\ \A i \in BlockIds :
           /\ Blocks[i].index = i - 1
           /\ Blocks[i].start <= Blocks[i].end
           /\ Blocks[i].start = (IF i = 1 THEN 0 ELSE Blocks[i - 1].end)
    /\ Len(data.buffer) = (IF Blocks = <<>> THEN 0 ELSE Blocks[Len(Blocks)].end)

(* A full buffer of several blocks, one of them non-empty and not the first. *)
C1_Witness ==
    /\ Len(Blocks) >= 2
    /\ Len(data.buffer) = MaxLength
    /\ \E i \in BlockIds : Blocks[i].end > Blocks[i].start /\ Blocks[i].start > 0

(* C2: draw_bits(n) on an unfrozen record with len(buffer) + ceil(n/8) >
   max_length ends with status OVERRUN, frozen, overdraw = len(buffer) +
   ceil(n/8) - max_length, raises StopTest with the record's testcounter,
   calls no byte source and leaves buffer, blocks and block_starts as they
   were; with len(buffer) + ceil(n/8) <= max_length it does not overrun. *)
C2_Overrun ==
    /\ ~data.frozen =>
         \A i \in ValidDrawBitsInputs :
            LET n_bytes == (i[1] + 7) \div 8
                total == Len(data.buffer) + n_bytes
                o == draw_bits(data, i[1], i[2], i[3])
            IN  IF total > data.max_length
                THEN /\ o.exc = <<"StopTest", data.testcounter>>
                     /\ o.d.status = OVERRUN
                     /\ o.d.frozen
                     /\ o.d.overdraw = total - data.max_length
                     /\ ~o.src
                     /\ o.d.buffer = data.buffer
                     /\ o.d.blocks = data.blocks
                     /\ o.d.block_starts = data.block_starts
                ELSE /\ o.exc = NoExc
                     /\ ~o.d.frozen
                     /\ o.d.status = data.status
                     /\ o.d.overdraw = data.overdraw
    /\ Aborted("draw_bits") =>
         /\ data.status = OVERRUN
         /\ data.frozen
         /\ data.overdraw >= 1
         /\ Len(data.buffer) <= data.max_length
         /\ raised[2] = data.testcounter
         /\ ~source_called

C2_Witness ==
    /\ Aborted("draw_bits")
    /\ data.overdraw = 1
    /\ Len(data.buffer) = data.max_length
    /\ Len(data.blocks) >= 1

(* C3: draw_bits(n, forced) with bit_length(forced) <= n, on an unfrozen
   record with room, returns forced, calls no byte source, appends
   ceil(n/8) bytes that are the big-endian digits of forced, and appends one
   block with forced = true and bits = n. *)
C3_ForcedDraw ==
    ~data.frozen =>
        \A n \in BitWidths : \A forced \in ForcedValues :
            LET n_bytes == (n + 7) \div 8
                o == draw_bits(data, n, <<forced>>, <<>>)
                old == Len(data.buffer)
                new == SubSeq(o.d.buffer, old + 1, Len(o.d.buffer))
            IN  (bit_length(forced) <= n /\ old + n_bytes <= data.max_length) =>
                    /\ o.exc = NoExc
                    /\ o.ret = forced
                    /\ ~o.src
                    /\ SubSeq(o.d.buffer, 1, old) = data.buffer
                    /\ Len(new) = n_bytes
                    /\ \A j \in 1..n_bytes : new[j] \in 0..255
                    /\ int_from_bytes(new) = forced
                    /\ Len(o.d.blocks) = Len(data.blocks) + 1
                    /\ SubSeq(o.d.blocks, 1, Len(data.blocks)) = data.blocks
                    /\ o.d.blocks[Len(o.d.blocks)].forced
                    /\ o.d.blocks[Len(o.d.blocks)].bits = n

C3_Witness ==
    /\ Succeeded("draw_bits")
    /\ ~source_called
    /\ result = 255
    /\ Blocks # <<>>
    /\ Blocks[Len(Blocks)].forced
    /\ Blocks[Len(Blocks)].bits = MaxBits
    /\ BlockBytes(data, Blocks[Len(Blocks)]) = <<0, 255>>

(* C4: the value a successful draw_bits returns has bit_length <= n and is
   the big-endian integer of the bytes stored for its block; in every state
   the integer decoded from each block's bytes has bit_length <= the block's
   bits. *)
C4_MaskedValue ==
    /\ \A i \in BlockIds :
           bit_length(int_from_bytes(BlockBytes(data, Blocks[i]))) <= Blocks[i].bits
    /\ Succeeded("draw_bits") =>
           /\ Blocks # <<>>
           /\ result = int_from_bytes(BlockBytes(data, Blocks[Len(Blocks)]))
           /\ bit_length(result) <= Blocks[Len(Blocks)].bits

C4_Witness ==
    /\ Succeeded("draw_bits")
    /\ source_called
    /\ result = 3
    /\ Blocks[Len(Blocks)].bits = 2
    /\ data.buffer[Len(data.buffer)] = 3

(* C5: example regions are properly nested: a child lies one level below
   its parent, starts inside it and, once closed, ends at or after its own
   start and (the parent closed too) inside the parent; the children of one
   parent, in the order they were created, do not overlap: each is closed
   before the next one starts, at or before the next one's start. *)
C5_ProperNesting ==
    \A p \in ExampleIds :
        LET kids == Examples[p].children
        IN  /\ \A j \in 1..Len(kids) :
                   LET c == Examples[kids[j] + 1]
                   IN  /\ c.index = kids[j]
                       /\ c.depth = Examples[p].depth + 1
                       /\ Examples[p].start <= c.start
                       /\ Closed(c) => c.start <= c.end[1]
                       /\ RegionEnd(data, c) <= RegionEnd(data, Examples[p])
                       /\ (Closed(Examples[p]) => Closed(c))
            /\ \A j \in 1..(Len(kids) - 1) :
                   LET c1 == Examples[kids[j] + 1]
                       c2 == Examples[kids[j + 1] + 1]
                   IN  /\ Closed(c1)
                       /\ c1.start <= c2.start
                       /\ c1.end[1] <= c2.start
                       /\ c1.end[1] <= RegionEnd(data, c2)

(* A closed parent with two closed children, the second of them not empty
   and starting where the first, not empty either, ends. *)
C5_Witness ==
    \E p \in ExampleIds :
        LET kids == Examples[p].children
        IN  /\ Closed(Examples[p])
            /\ Len(kids) = 2
            /\ Closed(Examples[kids[2] + 1])
            /\ Examples[kids[1] + 1].start < Examples[kids[1] + 1].end[1]
            /\ Examples[kids[2] + 1].start = Examples[kids[1] + 1].end[1]
            /\ Examples[kids[2] + 1].start < Examples[kids[2] + 1].end[1]
            /\ Examples[kids[2] + 1].end[1] = Examples[p].end[1]

(* C6: a closed example is trivial exactly when every block whose span lies
   within the example's region is forced or all zero. *)
C6_TrivialIff ==
    \A e \in ExampleIds :
        Closed(Examples[e]) =>
            (Examples[e].trivial <=>
                \A b \in BlockIds :
                    Contains(data, Examples[e], Blocks[b]) =>
                        (Blocks[b].forced \/ Blocks[b].all_zero))

(* A closed example opened by the caller that holds a block drawn from the
   source with a non-zero value, and a closed example that holds only a
   forced non-zero block. *)
C6_Witness ==
    /\ \E e \in ExampleIds :
           /\ Closed(Examples[e])
           /\ Examples[e].label # DRAW_BYTES_LABEL
           /\ ~Examples[e].trivial
    /\ \E e \in ExampleIds : \E b \in BlockIds :
           /\ Closed(Examples[e])
           /\ Examples[e].trivial
           /\ Contains(data, Examples[e], Blocks[b])
           /\ Blocks[b].forced /\ ~Blocks[b].all_zero

(* C7 as stated: every example whose region contains a non-trivial block,
   the examples still open included, has trivial = false. *)
C7_AllAncestorsMarked ==
    \A b \in BlockIds : \A e \in ExampleIds :
        (NonTrivialBlock(Blocks[b]) /\ Contains(data, Examples[e], Blocks[b]))
            => ~Examples[e].trivial

(* The open examples whose region contains block b, outermost first. *)
OpenAround(b) ==
    SelectSeq(data.example_stack, LAMBDA i : Examples[i + 1].start <= b.start)

(* C7, amended: for a non-trivial block, every closed example whose region
   contains it has trivial = false, and so has the innermost example still
   open around it; the open examples further out are marked only when the
   example below them closes. *)
C7_ClosedAndInnermostMarked ==
    \A b \in BlockIds :
        NonTrivialBlock(Blocks[b]) =>
            /\ \A e \in ExampleIds :
                   (Closed(Examples[e]) /\ Contains(data, Examples[e], Blocks[b]))
                       => ~Examples[e].trivial
            /\ LET around == OpenAround(Blocks[b])
               IN  around # <<>> => ~Examples[around[Len(around)] + 1].trivial

(* A non-trivial block drawn inside an example that is still open below the
   open root: the inner example is marked, the root is not yet. *)
C7_Witness ==
    /\ Len(data.example_stack) = 2
    /\ \E b \in BlockIds :
           /\ NonTrivialBlock(Blocks[b])
           /\ Examples[data.example_stack[2] + 1].start <= Blocks[b].start
    /\ ~Examples[data.example_stack[2] + 1].trivial
    /\ Examples[data.example_stack[1] + 1].trivial

(* C8: stop_example(discard) on an unfrozen record closes the example on
   top of the stack with discarded = false when the example is empty,
   whatever was asked, and then leaves has_discards alone; a non-empty
   example gets the flag asked for.  has_discards is true exactly when some
   example has discarded = true. *)
C8_EmptyNeverDiscarded ==
    /\ (~data.frozen /\ data.example_stack # <<>>) =>
           \A discard \in BOOLEAN :
               LET k == data.example_stack[Len(data.example_stack)]
                   empty == Examples[k + 1].start = Len(data.buffer)
                   o == stop_example(data, discard)
               IN  /\ o.exc = NoExc
                   /\ o.d.examples[k + 1].end = <<Len(data.buffer)>>
                   /\ o.d.examples[k + 1].discarded = <<(~empty /\ discard)>>
                   /\ o.d.has_discards = (data.has_discards \/ (~empty /\ discard))
    /\ \A e \in ExampleIds :
           /\ Closed(Examples[e]) <=> Examples[e].discarded # None
           /\ (Closed(Examples[e]) /\ Examples[e].end[1] = Examples[e].start)
                  => Examples[e].discarded = <<FALSE>>
    /\ data.has_discards <=> \E e \in ExampleIds : Examples[e].discarded = <<TRUE>>

(* stop_example has just closed an empty example of the caller's, opened
   after a byte was drawn: it is not discarded and has_discards is as it was. *)
C8_Witness ==
    /\ Succeeded("stop_example")
    /\ ~data.frozen
    /\ data.buffer # <<>>
    /\ ~data.has_discards
    /\ LET last == Examples[Len(Examples)]
       IN  /\ last.label # DRAW_BYTES_LABEL
           /\ Closed(last)
           /\ last.end[1] = last.start
           /\ last.discarded = <<FALSE>>

FailingOnFrozen == {"draw_bits", "write", "draw", "start_example", "note", "conclude_test"}

(* C9 as stated: on a frozen record each of draw_bits, draw_bytes, write,
   draw, start_example, stop_example, note and conclude_test raises Frozen
   and changes nothing. *)
C9_EveryCallRaisesFrozen ==
    [][(data.frozen /\ op' \in FailingOnFrozen \cup {"draw_bytes", "stop_example"})
          => (raised' # NoExc /\ raised'[1] = "Frozen" /\ data' = data)]_vars

(* C9, amended: on a frozen record draw_bits, draw_bytes(n) with n >= 1,
   write, draw, start_example, note and conclude_test raise Frozen, while
   stop_example and draw_bytes(0) return without an error; none of them
   changes the record. *)
C9_FrozenCalls ==
    [][data.frozen =>
          /\ data' = data
          /\ op' \in FailingOnFrozen => (raised' # NoExc /\ raised'[1] = "Frozen")
          /\ op' \in {"draw_bits", "write", "start_example", "note", "conclude_test"}
                 => raised'[2] = op'
          /\ op' = "stop_example" => raised' = NoExc
          /\ op' = "draw_bytes" =>
                 \/ raised' = NoExc /\ result' = <<>>
                 \/ raised' = <<"Frozen", "draw_bits">>
          /\ draw_bytes(data, 0, <<>>) = Outcome(data, NoExc, <<>>, FALSE)
          /\ \A n \in ByteCounts \ {0} : \A src \in SeqsOfLen(ByteValues, n) :
                 draw_bytes(data, n, src) = Outcome(data, <<"Frozen", "draw_bits">>, None, FALSE)
      ]_vars

C9_Witness ==
    /\ data.frozen
    /\ data.buffer # <<>>
    /\ op = "write"
    /\ raised = <<"Frozen", "write">>

(* C10: stop_example on a frozen record raises nothing and changes nothing,
   whatever the discard argument; so does the stop_example that the finally
   of __draw runs, on a normal return and while an exception unwinds (the
   exception goes on as it was). *)
C10_StopExampleFrozenNoOp ==
    [][(data.frozen /\ op' \in {"stop_example", "draw.return", "draw.unwind"}) =>
          /\ data'.example_stack = data.example_stack
          /\ data'.examples = data.examples
          /\ data'.has_discards = data.has_discards
          /\ data' = data
          /\ raised' = (IF op' = "draw.unwind" THEN raised ELSE NoExc)
          /\ \A discard \in BOOLEAN :
                 stop_example(data, discard) = Outcome(data, NoExc, None, FALSE)
      ]_vars

(* The abort signal of conclude_test or of an overrun has left a frame of
   __draw, whose finally called stop_example on the frozen record. *)
C10_Witness ==
    /\ data.frozen
    /\ op = "draw.unwind"
    /\ raised = <<"StopTest", data.testcounter>>
    /\ Len(Examples) >= 2
    /\ \A e \in ExampleIds : Closed(Examples[e])

(* C11: a frozen record stays frozen and no call changes it, a second
   freeze() and note_event included; a record becomes frozen only by an
   overrun of draw_bits (called directly, by draw_bytes or by write), by
   conclude_test (called directly or by draw rejecting) or by freeze(). *)
C11_FrozenAbsorbing ==
    [][/\ data.frozen =>
              /\ data'.frozen
              /\ data' = data
              /\ freeze(data) = data
              /\ \A event \in Events :
                     note_event(data, event) =
                         Outcome(data, <<"AttributeError", "add">>, None, FALSE)
       /\ (~data.frozen /\ data'.frozen) =>
              \/ op' = "freeze" /\ raised' = NoExc
              \/ /\ op' \in {"draw_bits", "draw_bytes", "write"}
                 /\ raised' = StopTest(data)
                 /\ data'.status = OVERRUN
                 /\ data'.overdraw >= 1
              \/ /\ op' \in {"conclude_test", "draw"}
                 /\ raised' = StopTest(data)
      ]_vars

(* note_event has just failed on a record frozen by an overrun after an
   event was noted and bytes were drawn. *)
C11_Witness ==
    /\ data.frozen
    /\ data.status = OVERRUN
    /\ data.buffer # <<>>
    /\ data.events.members # {}
    /\ op = "note_event"
    /\ raised = <<"AttributeError", "add">>

OptionalOrigins == {None} \cup {<<o>> : o \in Origins}

(* What conclude_test leaves of an unfrozen record d. *)
Concluded(d, status, interesting_origin) ==
    freeze([d EXCEPT !.status = status, !.interesting_origin = interesting_origin])

(* C12: on an unfrozen record conclude_test(status, origin) sets status and
   interesting_origin, freezes the record and raises StopTest with the
   record's testcounter; a non-null origin with a status other than
   INTERESTING is refused by the assertion and nothing changes; mark_invalid
   concludes with INVALID and mark_interesting(origin) with INTERESTING.  In
   every state interesting_origin is non-null only if status = INTERESTING
   and the record is frozen. *)
C12_ConcludeTest ==
    /\ ~data.frozen =>
           /\ \A status \in Statuses : \A origin \in OptionalOrigins :
                  LET o == conclude_test(data, status, origin)
                  IN  IF origin = None \/ status = INTERESTING
                      THEN /\ o.exc = <<"StopTest", data.testcounter>>
                           /\ o.d.status = status
                           /\ o.d.interesting_origin = origin
                           /\ o.d.frozen
                           /\ o.d.buffer = data.buffer
                           /\ o.d.blocks = data.blocks
                           /\ o.d = Concluded(data, status, origin)
                      ELSE /\ o.exc = <<"AssertionError", "conclude_test">>
                           /\ o.d = data
           /\ mark_invalid(data) =
                  Outcome(Concluded(data, INVALID, None), StopTest(data), None, FALSE)
           /\ \A origin \in OptionalOrigins :
                  mark_interesting(data, origin) =
                      Outcome(Concluded(data, INTERESTING, origin), StopTest(data), None, FALSE)
    /\ Aborted("conclude_test") =>
           /\ data.frozen
           /\ raised[2] = data.testcounter
    /\ data.interesting_origin # None =>
           (data.status = INTERESTING /\ data.frozen)

(* conclude_test has just ended a run that drew bytes as INTERESTING with an
   origin. *)
C12_Witness ==
    /\ Aborted("conclude_test")
    /\ data.frozen
    /\ data.status = INTERESTING
    /\ data.interesting_origin = <<"origin">>
    /\ data.buffer # <<>>

(* C13: draw on an unfrozen record is rejected when the strategy is empty or
   the depth has reached MAX_DEPTH: the record is concluded INVALID and
   frozen, StopTest is raised, no frame of __draw is entered and no example
   is opened; otherwise the example it opens lies one level below the
   current one, so never deeper than MAX_DEPTH. *)
C13_DrawRejects ==
    [][(~data.frozen /\ op' = "draw") =>
          /\ \A is_empty \in BOOLEAN : \A label \in Labels :
                 LET o == draw(data, is_empty, label)
                 IN  IF is_empty \/ Len(data.example_stack) - 1 >= 100
                     THEN /\ o.exc = <<"StopTest", data.testcounter>>
                          /\ o.d.status = INVALID
                          /\ o.d.frozen
                          /\ Len(o.d.examples) = Len(data.examples)
                     ELSE /\ o.exc = NoExc
                          /\ Len(o.d.examples) = Len(data.examples) + 1
          /\ \/ /\ raised' = <<"StopTest", data.testcounter>>
                /\ data'.status = INVALID
                /\ data'.frozen
                /\ Len(data'.examples) = Len(data.examples)
                /\ draw_stack' = draw_stack
             \/ /\ raised' = NoExc
                /\ Len(data.example_stack) - 1 < 100
                /\ ~data'.frozen
                /\ data'.status = data.status
                /\ Len(draw_stack') = Len(draw_stack) + 1
                /\ Len(data'.examples) = Len(data.examples) + 1
                /\ data'.examples[Len(data'.examples)].depth = Len(data.example_stack)
                /\ data'.examples[Len(data'.examples)].depth <= 100
      ]_vars

(* A draw of a strategy that is not empty has just been rejected at depth
   MAX_DEPTH, reached by draws alone. *)
C13_Witness ==
    /\ op = "draw"
    /\ Aborted("draw")
    /\ data.status = INVALID
    /\ data.frozen
    /\ Len(draw_stack) = MAX_DEPTH
    /\ \E e \in ExampleIds : Examples[e].depth = MAX_DEPTH
    /\ \A e \in ExampleIds : Examples[e].depth <= MAX_DEPTH

(* The frame of __draw that a step leaves. *)
LeftFrame == draw_stack[Len(draw_stack)]

(* C14: draw closes the example it opened on every exit path, the body
   being balanced.  On a normal return and on a fault of the strategy, the
   record unfrozen, example_stack is again what it was at entry and the
   example of this draw ends at len(buffer); the fault goes on unchanged and
   neither freezes the record nor changes its status.  When StopTest leaves
   the frame, example_stack is empty and every example has its end. *)
C14_DrawClosesExample ==
    [][/\ op' = "do_draw" =>
              /\ data' = data
              /\ raised' = <<"Fault", "do_draw">>
       /\ (op' \in {"draw.return", "draw.unwind"} /\ ~data.frozen) =>
              /\ draw_stack' = SubSeq(draw_stack, 1, Len(draw_stack) - 1)
              /\ raised' = (IF op' = "draw.return" THEN NoExc ELSE <<"Fault", "do_draw">>)
              /\ op' = "draw.unwind" => raised = <<"Fault", "do_draw">>
              /\ ~data'.frozen
              /\ data'.status = data.status
              /\ data'.buffer = data.buffer
              /\ data'.example_stack = LeftFrame.example_stack
              /\ data'.examples[LeftFrame.example + 1].end = <<Len(data'.buffer)>>
       /\ (op' = "draw.unwind" /\ raised[1] = "StopTest") =>
              /\ raised' = raised
              /\ data.frozen
              /\ data' = data
              /\ data'.example_stack = <<>>
              /\ \A e \in 1..Len(data'.examples) : Closed(data'.examples[e])
      ]_vars

(* A fault of the strategy has left the frame of a draw whose do_draw had
   drawn a byte: the record is unfrozen, only the root is open, and the
   example of the draw ends at the end of the buffer. *)
C14_Witness ==
    /\ op = "draw.unwind"
    /\ raised = <<"Fault", "do_draw">>
    /\ draw_stack = <<>>
    /\ ~data.frozen
    /\ data.example_stack = <<0>>
    /\ \E e \in ExampleIds :
           /\ Examples[e].depth = 1
           /\ Examples[e].label # DRAW_BYTES_LABEL
           /\ Examples[e].start < Len(data.buffer)
           /\ Examples[e].end = <<Len(data.buffer)>>

(* C15: on an unfrozen record with room, write(s) of a non-empty s appends
   the bytes of s as they are, leading zero bytes included, records one
   block, forced and of 8 * len(s) bits, and does not call the byte source;
   write of the empty string changes nothing.  A literal of MaxLiteral bytes
   followed by draw_bits(MaxBits) stays in the buffer as written, and the
   draw returns a value below 2^MaxBits. *)
C15_WriteVerbatim ==
    /\ ~data.frozen =>
           \A s \in Literals :
               LET old == Len(data.buffer)
                   o == write(data, s)
               IN  IF s = <<>>
                   THEN o = Outcome(data, NoExc, None, FALSE)
                   ELSE old + Len(s) <= data.max_length =>
                          /\ o.exc = NoExc
                          /\ ~o.src
                          /\ ~o.d.frozen
                          /\ o.d.buffer = data.buffer \o s
                          /\ o.ret = s
                          /\ Len(o.d.blocks) = Len(data.blocks) + 1
                          /\ SubSeq(o.d.blocks, 1, Len(data.blocks)) = data.blocks
                          /\ o.d.blocks[Len(o.d.blocks)] =
                                 Block(old, old + Len(s), 8 * Len(s), Len(data.blocks),
                                       TRUE, \A j \in 1..Len(s) : s[j] = 0)
                          /\ \A src \in SeqsOfLen(ByteValues, bits_to_bytes(MaxBits)) :
                                 LET o2 == draw_bits(o.d, MaxBits, None, src)
                                 IN  old + Len(s) + bits_to_bytes(MaxBits) <= data.max_length =>
                                        /\ o2.exc = NoExc
                                        /\ SubSeq(o2.d.buffer, old + 1, old + Len(s)) = s
                                        /\ o2.ret \in 0..(ShiftLeft1(MaxBits) - 1)
    /\ (Succeeded("write") /\ result # None) =>
           /\ ~source_called
           /\ Blocks # <<>>
           /\ Blocks[Len(Blocks)].forced
           /\ Blocks[Len(Blocks)].bits = 8 * Len(result)
           /\ BlockBytes(data, Blocks[Len(Blocks)]) = result
           /\ Blocks[Len(Blocks)].end = Len(data.buffer)

(* A literal with a leading zero byte was written and a draw of MaxBits
   bits from the source has followed it. *)
C15_Witness ==
    /\ Succeeded("draw_bits")
    /\ source_called
    /\ Len(Blocks) = 2
    /\ Blocks[1].forced
    /\ Blocks[1].bits = 8 * MaxLiteral
    /\ SubSeq(data.buffer, 1, MaxLiteral) = [j \in 1..MaxLiteral |-> IF j = 1 THEN 0 ELSE 255]
    /\ Blocks[2].bits = MaxBits
    /\ result > 0

(* The buffer a replay record was made for. *)
Replayed == data.replay

IsPrefix(s, t) == Len(s) <= Len(t) /\ s = SubSeq(t, 1, Len(s))

(* C16: a record made by for_buffer(B) has max_length = len(B) and its
   source returns B[len(buffer) : len(buffer) + n]: one-byte draws return
   the bytes of B in order, leave buffer a prefix of B with a block of 8
   bits for each byte and the status VALID, and the draw after the last byte
   of B overruns with overdraw = 1.  test_lot_of_dead_nodes ends INTERESTING
   with buffer [0, 1, 2, 3] and four blocks on a B that starts so, and is
   not INTERESTING on any other. *)
C16_Replay ==
    /\ data.max_length = Len(Replayed)
    /\ IsPrefix(data.buffer, Replayed)
    /\ Len(Blocks) = Len(data.buffer)
    /\ \A i \in BlockIds :
           Blocks[i].bits = 8 /\ Blocks[i].start = i - 1 /\ Blocks[i].end = i
    /\ ~data.frozen =>
           /\ data.status = VALID
           /\ \A n \in 0..(MaxReplay + 1) :
                  ReplaySource(data, n) =
                      [j \in 1..(IF Len(data.buffer) + n <= Len(Replayed)
                                 THEN n ELSE Len(Replayed) - Len(data.buffer))
                          |-> Replayed[Len(data.buffer) + j]]
           /\ LET o == draw_bytes(data, 1, ReplaySource(data, 1))
              IN  IF Len(data.buffer) < Len(Replayed)
                  THEN /\ o.exc = NoExc
                       /\ o.ret = <<Replayed[Len(data.buffer) + 1]>>
                       /\ o.d.buffer = SubSeq(Replayed, 1, Len(data.buffer) + 1)
                       /\ o.d.status = VALID
                       /\ ~o.d.frozen
                  ELSE /\ o.exc = <<"StopTest", data.testcounter>>
                       /\ o.d.status = OVERRUN
                       /\ o.d.overdraw = 1
                       /\ o.d.buffer = Replayed
    /\ (Succeeded("draw_bytes") /\ result # <<>>) =>
           result = <<Replayed[Len(data.buffer)]>>
    /\ Aborted("draw_bytes") =>
           /\ data.buffer = Replayed
           /\ data.status = OVERRUN
           /\ data.overdraw = 1
    /\ op = "test_lot_of_dead_nodes" =>
           /\ data.frozen
           /\ raised = <<"StopTest", data.testcounter>>
           /\ data.status = INTERESTING <=> IsPrefix(<<0, 1, 2, 3>>, Replayed)
           /\ data.status = INTERESTING =>
                  /\ data.buffer = <<0, 1, 2, 3>>
                  /\ Len(Blocks) = 4
           /\ data.status = OVERRUN <=> (IsPrefix(Replayed, <<0, 1, 2, 3>>) /\ Len(Replayed) < 4)
           /\ data.status \in {INTERESTING, OVERRUN, INVALID}

(* test_lot_of_dead_nodes has run on for_buffer([0, 1, 2, 3]). *)
C16_Witness ==
    /\ op = "test_lot_of_dead_nodes"
    /\ Replayed = <<0, 1, 2, 3>>
    /\ data.status = INTERESTING
    /\ data.buffer = <<0, 1, 2, 3>>
    /\ Len(Blocks) = 4
    /\ \A i \in BlockIds : Blocks[i].bits = 8

(* draw_bits(2) as the first call on for_buffer([b]). *)
FirstDrawOf2(b) ==
    LET d == start_example(for_buffer(<<b>>), TOP_LABEL).d
    IN  draw_bits(d, 2, None, ReplaySource(d, 1))

(* C17: draw_bits(2) on for_buffer([a]) and on for_buffer([b]) leaves equal
   buffers exactly when the two values drawn are equal, that is when
   a mod 4 = b mod 4, for all bytes a and b. *)
C17_MaskedBuffers ==
    /\ op = "__init__" =>
           \A b \in AllBytes :
               LET oa == draw_bits(data, 2, None, ReplaySource(data, 1))
                   ob == FirstDrawOf2(b)
               IN  /\ oa.exc = NoExc /\ ob.exc = NoExc
                   /\ (oa.d.buffer = ob.d.buffer) <=> (oa.ret = ob.ret)
                   /\ (oa.ret = ob.ret) <=> (Replayed[1] % 4 = b % 4)
    /\ (Succeeded("draw_bits") /\ Len(Blocks) = 1 /\ Blocks[1].bits = 2) =>
           /\ result = Replayed[1] % 4
           /\ data.buffer = <<result>>
           /\ \A b \in AllBytes :
                  (data.buffer = FirstDrawOf2(b).d.buffer) <=> (Replayed[1] % 4 = b % 4)

(* Two bits were drawn from for_buffer([7]): the buffer is that of
   for_buffer([3]). *)
C17_Witness ==
    /\ Succeeded("draw_bits")
    /\ Replayed = <<7>>
    /\ Len(Blocks) = 1
    /\ Blocks[1].bits = 2
    /\ data.buffer = <<3>>
    /\ data.buffer = FirstDrawOf2(3).d.buffer

Others == {i \in 1..Len(records) : i # current}

(* C18: the records of a process have different testcounter values,
   increasing in creation order and all below the counter; a StopTest
   raised by a call on a record carries that record's testcounter, which
   no other record has; and the call leaves every other record as it was,
   so that a record that was recording is still unfrozen. *)
C18_OwnIdentity ==
    /\ \A i, j \in 1..Len(records) :
           i < j => Record(i).testcounter < Record(j).testcounter
    /\ \A i \in 1..Len(records) : Record(i).testcounter < counter
    /\ [][/\ (raised' # NoExc /\ raised'[1] = "StopTest") =>
               /\ raised'[2] = data.testcounter
               /\ data'.testcounter = data.testcounter
               /\ data'.frozen
               /\ \A i \in Others : Record(i).testcounter # raised'[2]
               /\ records' = records
          /\ \A i, j \in 1..Len(records') :
               i < j => Record(i)'.testcounter < Record(j)'.testcounter
          /\ \A i \in 1..Len(records') : Record(i)'.testcounter < counter'
          /\ counter' >= counter
          /\ \A i \in 1..Len(records) : Record(i)'.testcounter = Record(i).testcounter
       ]_vars

(* The second record overran while the first, in which a byte was drawn,
   is still recording. *)
C18_Witness ==
    /\ Len(records) = 2
    /\ current = 2
    /\ raised = <<"StopTest", 1>>
    /\ data.status = OVERRUN
    /\ data.frozen
    /\ Record(1).testcounter = 0
    /\ ~Record(1).frozen
    /\ Len(Record(1).buffer) = 1

OpenExamples(d) == {i \in 1..Len(d.examples) : d.examples[i].end = None}

AllClosedWithin(d) ==
    \A i \in 1..Len(d.examples) :
        /\ d.examples[i].end # None
        /\ d.examples[i].start <= d.examples[i].end[1]
        /\ d.examples[i].end[1] <= Len(d.buffer)

RootOpen(d) == d.example_stack # <<>> /\ d.example_stack[1] = 0

(* C19: a frozen record has an empty example_stack and every example closed,
   with start <= end <= len(buffer); the step that freezes it (an overrun,
   conclude_test or freeze, at any depth of draws) runs the loop of freeze
   as many times as there were open examples, and when the root had not been
   closed before, the root spans the whole buffer. *)
C19_FreezeClosesAll ==
    /\ [](data.frozen => (data.example_stack = <<>> /\ AllClosedWithin(data)))
    /\ [][(~data.frozen /\ data'.frozen) =>
              /\ data'.example_stack = <<>>
              /\ AllClosedWithin(data')
              /\ Closes(data) = Len(data.example_stack)
              /\ Closes(data) = Cardinality(OpenExamples(data))
              /\ OpenExamples(data') = {}
              /\ Len(data'.examples) = Len(data.examples)
              /\ data'.buffer = data.buffer
              /\ RootOpen(data) =>
                     /\ data'.examples[1].index = 0
                     /\ data'.examples[1].depth = 0
                     /\ data'.examples[1].start = 0
                     /\ data'.examples[1].end = <<Len(data'.buffer)>>
       ]_vars

(* conclude_test was called inside a draw, after a byte was drawn: freeze
   closed the example of the draw and the root, which spans the buffer. *)
C19_Witness ==
    /\ op = "conclude_test"
    /\ data.frozen
    /\ Len(draw_stack) = 1
    /\ Len(data.buffer) = 1
    /\ Len(data.examples) = 3
    /\ data.examples[3].end = <<1>>
    /\ data.examples[1].end = <<1>>
    /\ data.example_stack = <<>>

(* C20: block starts are strictly increasing in index order, after any
   calls of draw_bits(n) with n >= 0, draw_bytes and write:
   blocks[i].start < blocks[j].start whenever i < j.  draw_bits(0) appends a
   block of no bytes, whose start is also the start of the next block. *)
C20_BlockStartsIncrease ==
    \A i, j \in BlockIds : i < j => Blocks[i].start < Blocks[j].start

(* The run of the logic of calls on for_buffer(B). *)
RunOn(B) == Rerun(start_example(for_buffer(B), TOP_LABEL).d, calls, 1, <<>>)

Spans(d) == [i \in 1..Len(d.examples) |-> <<d.examples[i].start, d.examples[i].end>>]

Bounds(d) == [i \in 1..Len(d.blocks) |-> <<d.blocks[i].start, d.blocks[i].end>>]

ExcType(exc) == IF exc = NoExc THEN "none" ELSE exc[1]

Values(outs) == [i \in 1..Len(outs) |-> <<ExcType(outs[i].exc), outs[i].ret>>]

(* C21: when a logic run on for_buffer(B) has ended with the record frozen
   and buffer B', then len(B') <= len(B), and the same logic run on
   for_buffer(B') makes the same calls with the same returned values and
   ends frozen with the same status, the same buffer B', the same block
   bounds and the same example spans, runs that end in OVERRUN included. *)
C21_ReplayRoundTrip ==
    data.frozen =>
        LET again == RunOn(data.buffer)
        IN  /\ Len(data.buffer) <= Len(Replayed)
            /\ Values(again.outs) = Values(calls)
            /\ again.d.frozen
            /\ again.d.status = data.status
            /\ again.d.buffer = data.buffer
            /\ Bounds(again.d) = Bounds(data)
            /\ Spans(again.d) = Spans(data)
            /\ again.d.blocks = data.blocks
            /\ again.d.examples = data.examples

(* A logic drew two bits from for_buffer([255, 255]), which the mask
   changed, then overran: the run on the shorter buffer it left agrees, with
   another overdraw. *)
C21_Witness ==
    /\ data.frozen
    /\ data.status = OVERRUN
    /\ Replayed = <<255, 255>>
    /\ data.buffer = <<3>>
    /\ Len(calls) = 2
    /\ calls[1].name = "draw_bits"
    /\ calls[1].ret = 3
    /\ calls[2].exc # NoExc
    /\ RunOn(data.buffer).d.status = OVERRUN
    /\ RunOn(data.buffer).d.buffer = <<3>>
    /\ RunOn(data.buffer).d.overdraw # data.overdraw

====
